---- MODULE Spec2Model ----
(***************************************************************************)
(* inicpp::option (src/src/option.h): a named ini option that owns an      *)
(* ordered vector of type-erased value cells (unique_ptr<option_holder>)   *)
(* together with a type tag.  The heap of cells is modelled explicitly so  *)
(* that ownership and sharing of cells between two options is observable.  *)
(* A C++ ValueType is represented by its option_type tag (get_enum_type    *)
(* of types.h maps the five value types one-to-one to the five tags).      *)
(***************************************************************************)
EXTENDS Integers, Sequences, FiniteSets, TLC

\* Longest value list built where one option is followed call by call.
MaxLen == 3

\* Longest value list built where two options are followed.
CopyLen == 2

\* option_type: the five supported kinds.
Kinds == {"boolean_e", "signed_e", "unsigned_e", "float_e", "string_e"}

\* Two distinguishable values of every kind (e.g. false/true, 0/1, "0"/"1").
Vals == {0, 1}

\* Option names and the two option objects of the model.
Names == {"n1", "n2"}
Objs == {"a", "b"}

Other(x) == IF x = "a" THEN "b" ELSE "a"

\* Cell addresses: at most MaxLen cells per object, one spare while inserting.
CellIds == 1 .. (2 * MaxLen + 2)

\* All lists of values of length 0..n.
Lists(n) == UNION {[1 .. k -> Vals] : k \in 0 .. n}

VARIABLES heap, opt, last, ub

vars == <<heap, opt, last, ub>>

----------------------------------------------------------------------------
\* Value cells and the heap

\* option_value<ValueType>(value): a cell of one kind holding one value.
option_value(K, v) == [kind |-> K, val |-> v]

\* nullptr, the result of a failed dynamic_cast.
NoCell == [kind |-> "nullptr", val |-> 0]

\* *ptr for a unique_ptr<option_holder>; a freed address holds no cell.
Deref(h, id) == IF id \in DOMAIN h THEN h[id] ELSE NoCell

\* Variant of dynamic_cast: an unchecked static_cast, never null.
dynamic_cast_unchecked(cell, K) == cell

\* dynamic_cast<option_value<K> *>(&*cell): the cell if it is of kind K.
dynamic_cast(cell, K) == IF cell.kind = K THEN cell ELSE NoCell

\* std::make_unique: a fresh address (the least free one).
Alloc(h) == CHOOSE i \in CellIds \ DOMAIN h : \A j \in CellIds \ DOMAIN h : i <= j

\* Destruction of the unique_ptrs in ids: their cells are released.
Free(h, ids) == [i \in DOMAIN h \ ids |-> h[i]]

Range(s) == {s[i] : i \in DOMAIN s}

\* What an operation hands back: the heap, the option, how it ended (OK or the
\* exception thrown), the returned values, and whether it dereferenced nullptr.
Result(h, o, st, ret, u) == [heap |-> h, opt |-> o, status |-> st, ret |-> ret, ub |-> u]

\* The option as a caller sees it: name, type and the cells' contents in order.
Contents(h, o) == [i \in 1 .. Len(o.values) |-> Deref(h, o.values[i])]
View(h, o) == [live |-> o.live, name |-> o.name, type |-> o.type, cells |-> Contents(h, o)]

\* The list L as cells of kind K.
CellsOf(K, L) == [i \in 1 .. Len(L) |-> option_value(K, L[i])]

\* An option that has not been constructed.
NoOption == [live |-> FALSE, name |-> "", type |-> "string_e", values |-> <<>>]

----------------------------------------------------------------------------
\* Typed single-option interface (option.h)

\* get<K>() const: the value in slot 0, NotFound when empty, BadCast when
\* the cast of slot 0 fails.
get(h, o, K) ==
    IF o.values = <<>>
    THEN Result(h, o, "NotFound", <<>>, FALSE)
    ELSE LET ptr == dynamic_cast(Deref(h, o.values[1]), K)
         IN  IF ptr = NoCell
             THEN Result(h, o, "BadCast", <<>>, FALSE)
             ELSE Result(h, o, "OK", <<ptr.val>>, FALSE)

\* Variant of get_list: the test for an empty vector is missing.
get_list_noempty(h, o, K) ==
    IF \E i \in 1 .. Len(o.values) : dynamic_cast(Deref(h, o.values[i]), K) = NoCell
    THEN Result(h, o, "BadCast", <<>>, FALSE)
    ELSE Result(h, o, "OK", [i \in 1 .. Len(o.values) |-> Deref(h, o.values[i]).val], FALSE)

\* get_list<K>() const: every value in order; the first failed cast throws
\* and the partial results vector is discarded.
get_list(h, o, K) ==
    IF o.values = <<>>
    THEN Result(h, o, "NotFound", <<>>, FALSE)
    ELSE IF \E i \in 1 .. Len(o.values) : dynamic_cast(Deref(h, o.values[i]), K) = NoCell
         THEN Result(h, o, "BadCast", <<>>, FALSE)
         ELSE Result(h, o, "OK", [i \in 1 .. Len(o.values) |-> Deref(h, o.values[i]).val], FALSE)

\* Variant of add_to_list: the test of the kind against type_ is missing.
add_to_list_unchecked(h, o, K, v) ==
    LET id == Alloc(h)
    IN  Result(h @@ (id :> option_value(K, v)),
               [o EXCEPT !.values = Append(@, id)], "OK", <<>>, FALSE)

\* Variant of add_to_list: a value of another kind retags the option
\* instead of throwing.
add_to_list_retag(h, o, K, v) ==
    LET id == Alloc(h)
    IN  Result(h @@ (id :> option_value(K, v)),
               [o EXCEPT !.values = Append(@, id), !.type = K], "OK", <<>>, FALSE)

\* Variant of add_to_list: the cell is inserted at begin() instead of pushed
\* at the back.
add_to_list_front(h, o, K, v) ==
    IF K # o.type
    THEN Result(h, o, "BadCast", <<>>, FALSE)
    ELSE LET id == Alloc(h)
         IN  Result(h @@ (id :> option_value(K, v)),
                    [o EXCEPT !.values = <<id>> \o @], "OK", <<>>, FALSE)

\* add_to_list<K>(value): append a fresh cell, BadCast when K is not type_.
add_to_list(h, o, K, v) ==
    IF K # o.type
    THEN Result(h, o, "BadCast", <<>>, FALSE)
    ELSE LET id == Alloc(h)
         IN  Result(h @@ (id :> option_value(K, v)),
                    [o EXCEPT !.values = Append(@, id)], "OK", <<>>, FALSE)

\* Variant of add_to_list(value, position): position >= size() is refused.
add_to_list_pos_strict(h, o, K, v, position) ==
    IF K # o.type
    THEN Result(h, o, "BadCast", <<>>, FALSE)
    ELSE IF position >= Len(o.values)
         THEN Result(h, o, "NotFound", <<>>, FALSE)
         ELSE LET id == Alloc(h)
              IN  Result(h @@ (id :> option_value(K, v)),
                         [o EXCEPT !.values = SubSeq(@, 1, position) \o <<id>>
                                              \o SubSeq(@, position + 1, Len(@))],
                         "OK", <<>>, FALSE)

\* Variant of add_to_list(value, position): the cell is pushed at the back
\* whatever the position.
add_to_list_pos_back(h, o, K, v, position) ==
    IF K # o.type
    THEN Result(h, o, "BadCast", <<>>, FALSE)
    ELSE IF position > Len(o.values)
         THEN Result(h, o, "NotFound", <<>>, FALSE)
         ELSE LET id == Alloc(h)
              IN  Result(h @@ (id :> option_value(K, v)),
                         [o EXCEPT !.values = Append(@, id)], "OK", <<>>, FALSE)

\* add_to_list<K>(value, position): insert a fresh cell before index
\* position (0-based); BadCast is tested before NotFound.
add_to_list_pos(h, o, K, v, position) ==
    IF K # o.type
    THEN Result(h, o, "BadCast", <<>>, FALSE)
    ELSE IF position > Len(o.values)
         THEN Result(h, o, "NotFound", <<>>, FALSE)
         ELSE LET id == Alloc(h)
              IN  Result(h @@ (id :> option_value(K, v)),
                         [o EXCEPT !.values = SubSeq(@, 1, position) \o <<id>>
                                              \o SubSeq(@, position + 1, Len(@))],
                         "OK", <<>>, FALSE)

\* values_.erase(it) for the 1-based index i: the cell is released.
Erase(h, o, i) ==
    [heap |-> Free(h, {o.values[i]}),
     opt |-> [o EXCEPT !.values = SubSeq(@, 1, i - 1) \o SubSeq(@, i + 1, Len(@))]]

\* The loop of remove_from_list stops at the first cell whose cast is null
\* (ptr->get() on nullptr) or whose value equals the argument.
Stops(h, o, K, v, i) ==
    LET ptr == dynamic_cast(Deref(h, o.values[i]), K)
    IN  ptr = NoCell \/ ptr.val = v

\* Variant of remove_from_list: the loop has no break and a later equal
\* cell is the one erased.
remove_from_list_last(h, o, K, v) ==
    IF K # o.type
    THEN Result(h, o, "BadCast", <<>>, FALSE)
    ELSE IF \A i \in 1 .. Len(o.values) : ~Stops(h, o, K, v, i)
         THEN Result(h, o, "OK", <<>>, FALSE)
         ELSE LET i == CHOOSE j \in 1 .. Len(o.values) :
                           /\ Stops(h, o, K, v, j)
                           /\ \A k \in (j + 1) .. Len(o.values) : ~Stops(h, o, K, v, k)
                  e == Erase(h, o, i)
              IN  Result(e.heap, e.opt, "OK", <<>>, FALSE)

\* remove_from_list<K>(value): erase the first cell equal to value, silently
\* nothing when there is none, BadCast when K is not type_.
remove_from_list(h, o, K, v) ==
    IF K # o.type
    THEN Result(h, o, "BadCast", <<>>, FALSE)
    ELSE IF \A i \in 1 .. Len(o.values) : ~Stops(h, o, K, v, i)
         THEN Result(h, o, "OK", <<>>, FALSE)
         ELSE LET i == CHOOSE j \in 1 .. Len(o.values) :
                           /\ Stops(h, o, K, v, j)
                           /\ \A k \in 1 .. (j - 1) : ~Stops(h, o, K, v, k)
              IN  IF dynamic_cast(Deref(h, o.values[i]), K) = NoCell
                  THEN Result(h, o, "OK", <<>>, TRUE)
                  ELSE LET e == Erase(h, o, i)
                       IN  Result(e.heap, e.opt, "OK", <<>>, FALSE)

\* The for loop of set_list: add_to_list for items i.. of list; the first
\* exception leaves the loop with what was appended so far.
RECURSIVE AddAll(_, _, _, _, _)
AddAll(h, o, K, list, i) ==
    IF i > Len(list)
    THEN Result(h, o, "OK", <<>>, FALSE)
    ELSE LET r == add_to_list(h, o, K, list[i])
         IN  IF r.status # "OK" THEN r ELSE AddAll(r.heap, r.opt, K, list, i + 1)

\* Variant of set_list: type_ is assigned after the loop.
set_list_late_retag(h, o, K, list) ==
    LET r == AddAll(Free(h, Range(o.values)), [o EXCEPT !.values = <<>>], K, list, 1)
    IN  IF r.status # "OK" THEN r
        ELSE Result(r.heap, [r.opt EXCEPT !.type = K], "OK", <<>>, FALSE)

\* set_list<K>(list): values_.clear(); type_ = K; then add every item.
set_list(h, o, K, list) ==
    AddAll(Free(h, Range(o.values)), [o EXCEPT !.values = <<>>, !.type = K], K, list, 1)

----------------------------------------------------------------------------
\* Members declared in option.h whose bodies live outside it

\* option(name, values, type): one cell per initial value, of the kind the
\* type tag names; the single-value constructor is the one-element case.
option(h, name, list, type) ==
    LET ids == [i \in 1 .. Len(list) |-> i + Cardinality(DOMAIN h)]
    IN  [heap |-> h @@ [j \in Range(ids) |-> option_value(type, list[j - Cardinality(DOMAIN h)])],
         opt |-> [live |-> TRUE, name |-> name, type |-> type, values |-> ids]]

\* set<K>(value), i.e. operator=(K value): replaces the value of slot 0
\* through option_value::set; the kind must be the option's type and the
\* sequence must not be empty.
set(h, o, K, v) ==
    IF K # o.type
    THEN Result(h, o, "BadCast", <<>>, FALSE)
    ELSE IF o.values = <<>>
         THEN Result(h, o, "NotFound", <<>>, FALSE)
         ELSE Result([h EXCEPT ![o.values[1]].val = v], o, "OK", <<>>, FALSE)

\* remove_from_list_pos(position): erase the element at the 0-based
\* position, NotFound when position >= size.
remove_from_list_pos(h, o, position) ==
    IF position >= Len(o.values)
    THEN Result(h, o, "NotFound", <<>>, FALSE)
    ELSE LET e == Erase(h, o, position + 1)
         IN  Result(e.heap, e.opt, "OK", <<>>, FALSE)

\* What the schema collaborator reports for an option name: unknown, or the
\* expected type and whether a list is permitted.
Schemas ==
    {[found |-> FALSE, expected_type |-> "string_e", allows_list |-> FALSE]}
        \cup [found : {TRUE}, expected_type : Kinds, allows_list : BOOLEAN]
Modes == {"strict", "relaxed"}

\* validate(opt_schema, mode): compares name/type/cardinality with the
\* schema's answer and returns whether it matches; mutates nothing.
validate(h, o, schema, mode) ==
    LET matches == IF ~schema.found
                   THEN mode = "relaxed"
                   ELSE schema.expected_type = o.type
                        /\ (schema.allows_list \/ Len(o.values) <= 1)
    IN  Result(h, o, "OK", <<matches>>, FALSE)

\* Variant of copy_option: the source's cell itself is pushed, no fresh one.
copy_option_shared(h, o, K, src) ==
    Result(h, [o EXCEPT !.values = Append(@, src)], "OK", <<>>, FALSE)

\* copy_option<K>(opt): unwrap the source cell as kind K and push a fresh
\* cell with the same value; a failed cast is dereferenced unchecked.
copy_option(h, o, K, src) ==
    LET ptr == dynamic_cast(Deref(h, src), K)
    IN  IF ptr = NoCell
        THEN Result(h, o, "OK", <<>>, TRUE)
        ELSE LET id == Alloc(h)
             IN  Result(h @@ (id :> option_value(K, ptr.val)),
                        [o EXCEPT !.values = Append(@, id)], "OK", <<>>, FALSE)

\* The per-kind dispatch loop of the copy: copy_option<type> for the source
\* cells i.. in order.
RECURSIVE CopyAll(_, _, _, _, _)
CopyAll(h, o, K, srcs, i) ==
    IF i > Len(srcs)
    THEN Result(h, o, "OK", <<>>, FALSE)
    ELSE LET r == copy_option(h, o, K, srcs[i])
         IN  IF r.ub THEN r ELSE CopyAll(r.heap, r.opt, K, srcs, i + 1)

\* option(const option &) and operator=(const option &): the target gives up
\* its cells, takes the source's name and type and a deep duplicate of every
\* source cell.  Returns the target.
copy(h, dst, src) ==
    CopyAll(Free(h, Range(dst.values)),
            [live |-> TRUE, name |-> src.name, type |-> src.type, values |-> <<>>],
            src.type, src.values, 1)

\* option(option &&) and operator=(option &&): the target gives up its cells
\* and takes over the source's sequence; the source keeps its name and type
\* and is left empty.  Returns heap, target and source.
move(h, dst, src) ==
    [heap |-> Free(h, Range(dst.values)),
     dst |-> [live |-> TRUE, name |-> src.name, type |-> src.type, values |-> src.values],
     src |-> [src EXCEPT !.values = <<>>]]

----------------------------------------------------------------------------
\* States and steps

\* s without repeated elements, first occurrences kept in order.
RECURSIVE Uniq(_)
Uniq(s) ==
    IF s = <<>> THEN <<>>
    ELSE LET t == Uniq(SubSeq(s, 1, Len(s) - 1))
         IN  IF s[Len(s)] \in Range(t) THEN t ELSE Append(t, s[Len(s)])

\* Addresses carry no meaning of their own: every state is kept with its
\* cells renumbered in the order a's and then b's vector reaches them (an
\* address whose cell was released becomes 0).
Canon(h, os) ==
    LET refs  == Uniq(SelectSeq(os["a"].values \o os["b"].values, LAMBDA id : id \in DOMAIN h))
        rank(id) == IF id \in Range(refs) THEN CHOOSE i \in 1 .. Len(refs) : refs[i] = id ELSE 0
    IN  [heap |-> [i \in 1 .. Len(refs) |-> h[refs[i]]],
         opt  |-> [x \in Objs |-> [os[x] EXCEPT !.values = [i \in 1 .. Len(@) |-> rank(@[i])]]]]

\* No call: the previous-call slot of a record that keeps none.
NoCall == [op |-> "none", kind |-> "none", arg |-> <<>>, pos |-> 0, status |-> "OK",
           pre |-> View(<<>>, NoOption)]

\* The call before this one is remembered in two cases: get_list directly
\* after set_list, and remove_from_list_pos(p) directly after an
\* add_to_list(v, p) that succeeded.
Follows(op, pos) ==
    IF op = "get_list" /\ last.op = "set_list"
    THEN [op |-> last.op, kind |-> last.kind, arg |-> last.arg, pos |-> 0,
          status |-> last.status, pre |-> View(<<>>, NoOption)]
    ELSE IF /\ op = "remove_from_list_pos"
            /\ last.op = "add_to_list_pos"
            /\ last.status = "OK"
            /\ last.pos = pos
         THEN [op |-> last.op, kind |-> last.kind, arg |-> last.arg, pos |-> last.pos,
               status |-> last.status, pre |-> last.pre]
         ELSE NoCall

\* The record of a call: the object, the member, its template kind and
\* arguments, how it ended, what it returned, the object as it was before,
\* and the call before it where that is remembered.
Call(x, op, K, arg, pos, r) ==
    [obj |-> x, op |-> op, kind |-> K, arg |-> arg, pos |-> pos,
     status |-> r.status, ret |-> r.ret, pre |-> View(heap, opt[x]),
     prev |-> Follows(op, pos)]

\* The record of a call of which only the object and the member are kept.
Brief(x, op) ==
    [obj |-> x, op |-> op, kind |-> "none", arg |-> <<>>, pos |-> 0,
     status |-> "OK", ret |-> <<>>, pre |-> View(<<>>, NoOption), prev |-> NoCall]

\* The kinds template arguments are drawn from: three of the five (every
\* member is one template, the same for each kind).
TemplateKinds == {"boolean_e", "signed_e", "string_e"}

\* The length bound in force: calls are recorded in full where one option
\* is followed.
Cap(full) == IF full THEN MaxLen ELSE CopyLen

\* One call of a member of the live object x with result r; the call is
\* recorded when full.
Step(x, full, op, K, arg, pos, r) ==
    /\ ~ub
    /\ opt[x].live
    /\ Len(r.opt.values) <= Cap(full)
    /\ \E c \in {Canon(r.heap, [opt EXCEPT ![x] = r.opt])} :
           heap' = c.heap /\ opt' = c.opt
    /\ ub' = r.ub
    /\ last' = IF full THEN Call(x, op, K, arg, pos, r) ELSE last

Set(x, full) ==
    \E K \in TemplateKinds, v \in Vals :
        \E r \in {set(heap, opt[x], K, v)} :
            Step(x, full, "set", K, <<v>>, 0,  r)

SetList(x, full) ==
    \E K \in TemplateKinds, list \in Lists(Cap(full)) :
        \E r \in {set_list(heap, opt[x], K, list)} :
            Step(x, full, "set_list", K, list, 0,  r)

AddToList(x, full) ==
    \E K \in TemplateKinds, v \in Vals :
        \E r \in {add_to_list(heap, opt[x], K, v)} :
            Step(x, full, "add_to_list", K, <<v>>, 0,  r)

AddToListPos(x, full) ==
    \E K \in TemplateKinds, v \in Vals, p \in 0 .. (Cap(full) + 1) :
        \E r \in {add_to_list_pos(heap, opt[x], K, v, p)} :
            Step(x, full, "add_to_list_pos", K, <<v>>, p,  r)

RemoveFromList(x, full) ==
    \E K \in TemplateKinds, v \in Vals :
        \E r \in {remove_from_list(heap, opt[x], K, v)} :
            Step(x, full, "remove_from_list", K, <<v>>, 0,  r)

RemoveFromListPos(x, full) ==
    \E p \in 0 .. (Cap(full) + 1) :
        \E r \in {remove_from_list_pos(heap, opt[x], p)} :
            Step(x, full, "remove_from_list_pos", "none", <<>>, p,  r)

Get(x, full) ==
    \E K \in TemplateKinds :
        \E r \in {get(heap, opt[x], K)} :
            Step(x, full, "get", K, <<>>, 0,  r)

GetList(x, full) ==
    \E K \in TemplateKinds :
        \E r \in {get_list(heap, opt[x], K)} :
            Step(x, full, "get_list", K, <<>>, 0,  r)

Validate(x, full) ==
    \E schema \in Schemas, mode \in Modes :
        \E r \in {validate(heap, opt[x], schema, mode)} :
            Step(x, full, "validate", "none", <<>>, 0,  r)

\* dst = src, or dst constructed as a copy of src.
Copy(dst) ==
    LET src == Other(dst)
        r   == copy(heap, opt[dst], opt[src])
        c   == Canon(r.heap, [opt EXCEPT ![dst] = r.opt])
    IN  /\ ~ub
        /\ opt[src].live
        /\ heap' = c.heap
        /\ opt' = c.opt
        /\ ub' = r.ub
        /\ last' = last

\* dst = std::move(src), or dst move-constructed from src.
Move(dst) ==
    LET src == Other(dst)
        m   == move(heap, opt[dst], opt[src])
        c   == Canon(m.heap, [opt EXCEPT ![dst] = m.dst, ![src] = m.src])
    IN  /\ ~ub
        /\ opt[src].live
        /\ heap' = c.heap
        /\ opt' = c.opt
        /\ ub' = ub
        /\ last' = last

\* One option a, built by either constructor; every call is recorded in full.
Init ==
    \E K \in TemplateKinds, list \in Lists(MaxLen) :
        LET c == option(<<>>, "n1", list, K)
        IN  /\ heap = c.heap
            /\ opt = [x \in Objs |-> IF x = "a" THEN c.opt ELSE NoOption]
            /\ last = Brief("a", "option")
            /\ ub = FALSE

Next ==
    \/ Set("a", TRUE)
    \/ SetList("a", TRUE)
    \/ AddToList("a", TRUE)
    \/ AddToListPos("a", TRUE)
    \/ RemoveFromList("a", TRUE)
    \/ RemoveFromListPos("a", TRUE)
    \/ Get("a", TRUE)
    \/ GetList("a", TRUE)
    \/ Validate("a", TRUE)

Spec == Init /\ [][Next]_vars

\* Two options: a constructed, b constructed or not yet; the mutators act on
\* either, and each can be copied or moved into the other.
CopyInit ==
    \E Ka \in TemplateKinds, la \in Lists(CopyLen),
       Kb \in TemplateKinds, lb \in Lists(CopyLen), bl \in BOOLEAN :
        LET ca == option(<<>>, "n1", la, Ka)
            cb == option(ca.heap, "n2", lb, Kb)
        IN  /\ heap = IF bl THEN cb.heap ELSE ca.heap
            /\ opt = [x \in Objs |-> IF x = "a" THEN ca.opt ELSE IF bl THEN cb.opt ELSE NoOption]
            /\ last = Brief("a", "option")
            /\ ub = FALSE

Mutate(x) ==
    \/ Set(x, FALSE)
    \/ SetList(x, FALSE)
    \/ AddToList(x, FALSE)
    \/ AddToListPos(x, FALSE)
    \/ RemoveFromList(x, FALSE)
    \/ RemoveFromListPos(x, FALSE)

CopyNext ==
    \E x \in Objs :
        \/ Mutate(x)
        \/ Copy(x)
        \/ Move(x)

SpecCopy == CopyInit /\ [][CopyNext]_vars

----------------------------------------------------------------------------
\* Properties

\* The option a as it is now, and the sequence operations the properties use.
Now == View(heap, opt["a"])
InsertAt(cells, p, c) == SubSeq(cells, 1, p) \o <<c>> \o SubSeq(cells, p + 1, Len(cells))
RemoveAt(cells, i) == SubSeq(cells, 1, i - 1) \o SubSeq(cells, i + 1, Len(cells))
Vals_(cells) == [i \in 1 .. Len(cells) |-> cells[i].val]

\* C1: in every reachable state of either option (after construction and
\* any sequence of set, set_list, add_to_list, remove_from_list,
\* remove_from_list_pos, copy and move) every stored cell's kind equals the
\* option's type tag, or the sequence is empty.
C1_TypeInv ==
    \A x \in Objs :
        opt[x].live =>
            \A i \in 1 .. Len(opt[x].values) :
                Deref(heap, opt[x].values[i]).kind = opt[x].type

\* C1 witness: b carries a's name (it was copied or moved from a), is full,
\* and has since been retagged to a type other than a's, a being non-empty.
C1_Witness ==
    /\ opt["b"].live
    /\ opt["b"].name = "n1"
    /\ Len(opt["b"].values) = CopyLen
    /\ opt["a"].values # <<>>
    /\ opt["a"].type # opt["b"].type

\* The calls C2 is about, made with a kind other than the option's type.
C2_Mismatch ==
    /\ last.op \in {"get", "get_list", "add_to_list", "add_to_list_pos"}
    /\ last.kind # last.pre.type

\* C2 as stated: get<K'>, get_list<K'> and add_to_list of a K'-typed value
\* on an option of type K # K' always fail with BadCast, whatever the
\* value sequence is.
C2_Original ==
    C2_Mismatch => (last.status = "BadCast" /\ last.ret = <<>>)

\* C2 amended: with K # K', add_to_list (both overloads) always fails with
\* BadCast; get<K'> and get_list<K'> fail with BadCast when the sequence is
\* not empty and with NotFound when it is empty; none returns a value.
C2_BadCast ==
    C2_Mismatch =>
        /\ last.ret = <<>>
        /\ last.status = IF last.op \in {"get", "get_list"} /\ last.pre.cells = <<>>
                         THEN "NotFound"
                         ELSE "BadCast"

\* C2 witness: get_list<K'> on a full option of another type threw BadCast.
C2_Witness ==
    /\ last.op = "get_list"
    /\ last.kind # last.pre.type
    /\ Len(last.pre.cells) = MaxLen
    /\ last.status = "BadCast"

\* C3: get<K> and get_list<K> on an option with no values fail with
\* NotFound for every K and leave the option as it was.
C3_EmptyNotFound ==
    (last.op \in {"get", "get_list"} /\ last.pre.cells = <<>>) =>
        (last.status = "NotFound" /\ last.ret = <<>> /\ Now = last.pre)

\* C3 witness: get_list<K> with K the option's own type, on an empty option.
C3_Witness ==
    /\ last.op = "get_list"
    /\ last.pre.cells = <<>>
    /\ last.kind = last.pre.type
    /\ last.status = "NotFound"

\* get_list<K> called directly after set_list<K>(L).
C4_After ==
    /\ last.op = "get_list"
    /\ last.prev.op = "set_list"
    /\ last.kind = last.prev.kind

\* C4 as stated: for any list L, set_list<K>(L) followed by get_list<K>()
\* returns L.
C4_Original ==
    C4_After => (last.status = "OK" /\ last.ret = last.prev.arg)

\* C4 amended: for any non-empty list L, set_list<K>(L) followed by
\* get_list<K>() returns L, element for element in order; for the empty
\* list get_list<K>() fails with NotFound.
C4_RoundTrip ==
    C4_After =>
        IF last.prev.arg = <<>>
        THEN last.status = "NotFound" /\ last.ret = <<>>
        ELSE last.status = "OK" /\ last.ret = last.prev.arg

\* C4 witness: a list of full length, descending at its head and with a
\* repeated value, came back from get_list.
C4_Witness ==
    /\ C4_After
    /\ last.status = "OK"
    /\ Len(last.prev.arg) = MaxLen
    /\ last.prev.arg[1] > last.prev.arg[2]
    /\ last.prev.arg[2] = last.prev.arg[3]

\* C5: add_to_list(v, p) that succeeds (v of the option's type,
\* 0 <= p <= size) followed by remove_from_list_pos(p) restores the
\* value sequence and leaves name and type as they were.
C5_InsertRemove ==
    (last.op = "remove_from_list_pos" /\ last.prev.op = "add_to_list_pos") =>
        (last.status = "OK" /\ Now = last.prev.pre)

\* C5 witness: the pair was run at an inner position of a longer sequence.
C5_Witness ==
    /\ last.op = "remove_from_list_pos"
    /\ last.prev.op = "add_to_list_pos"
    /\ last.pos > 0
    /\ last.pos < Len(last.prev.pre.cells)
    /\ last.status = "OK"

\* C6: add_to_list(value, position) on an option of type K with n values
\* fails with BadCast when value's kind is not K, else with NotFound when
\* position > n, the option being unchanged in both cases; else value is at
\* index position of the n+1 elements and the former elements keep their
\* order.
C6_AddAtPosition ==
    last.op = "add_to_list_pos" =>
        IF last.kind # last.pre.type
        THEN last.status = "BadCast" /\ Now = last.pre
        ELSE IF last.pos > Len(last.pre.cells)
             THEN last.status = "NotFound" /\ Now = last.pre
             ELSE /\ last.status = "OK"
                  /\ Now = [last.pre EXCEPT !.cells =
                               InsertAt(@, last.pos, option_value(last.kind, last.arg[1]))]

\* C6 witness: an insertion strictly inside a sequence.
C6_Witness ==
    /\ last.op = "add_to_list_pos"
    /\ last.status = "OK"
    /\ last.pos > 0
    /\ last.pos < Len(last.pre.cells)

\* The 1-based indexes of the cells that held the value before the call.
C7_Matches == {i \in 1 .. Len(last.pre.cells) : last.pre.cells[i].val = last.arg[1]}

\* C7: remove_from_list(value) with a value of the option's type removes
\* exactly the lowest-indexed element equal to value and keeps the others
\* in order, changes nothing and raises nothing when no element equals
\* value, and fails with BadCast, changing nothing, on another kind.
C7_RemoveFirst ==
    last.op = "remove_from_list" =>
        IF last.kind # last.pre.type
        THEN last.status = "BadCast" /\ Now = last.pre
        ELSE /\ last.status = "OK"
             /\ Now = IF C7_Matches = {}
                      THEN last.pre
                      ELSE [last.pre EXCEPT !.cells =
                               RemoveAt(@, CHOOSE i \in C7_Matches :
                                               \A j \in C7_Matches : i <= j)]

\* C7 witness: the value stood at indexes 2 and 3 but not 1; one was removed.
C7_Witness ==
    /\ last.op = "remove_from_list"
    /\ last.status = "OK"
    /\ C7_Matches = {2, 3}
    /\ Len(Now.cells) = 2

NoSharedCell ==
    /\ Range(opt["a"].values) \cap Range(opt["b"].values) = {}
    /\ \A x \in Objs :
           /\ Range(opt[x].values) \subseteq DOMAIN heap
           /\ Cardinality(Range(opt[x].values)) = Len(opt[x].values)

\* A step that is a move: the target shows what the source showed and the
\* source is left empty.
IsMoveStep ==
    \E dst \in Objs :
        /\ opt[Other(dst)].live
        /\ View(heap', opt'[dst]) = View(heap, opt[Other(dst)])
        /\ View(heap', opt'[Other(dst)]) = [View(heap, opt[Other(dst)]) EXCEPT !.cells = <<>>]

\* C9: a and b never share a value cell, also after one was made a copy of
\* the other, and a set, set_list, add_to_list, remove_from_list or
\* remove_from_list_pos on one leaves the other's name, type and value
\* sequence as they were: every step other than a move changes at most one
\* of the two options.
C9_Independent ==
    [][/\ NoSharedCell'
       /\ \/ IsMoveStep
          \/ View(heap', opt'["a"]) = View(heap, opt["a"])
          \/ View(heap', opt'["b"]) = View(heap, opt["b"])]_vars

\* C9 witness: b has a's name and type (it was made from a), both are full,
\* and they now differ in slot 0 only.
C9_Witness ==
    /\ opt["b"].live
    /\ opt["b"].name = opt["a"].name
    /\ opt["b"].type = opt["a"].type
    /\ Len(opt["a"].values) = CopyLen
    /\ Len(opt["b"].values) = CopyLen
    /\ Contents(heap, opt["a"])[1] # Contents(heap, opt["b"])[1]
    /\ Contents(heap, opt["a"])[2] = Contents(heap, opt["b"])[2]

====
